---- MODULE Spec2Model ----
(***************************************************************************)
(* qtalk-go: the qmux session (mux/session.go) and the RPC responder and   *)
(* caller (rpc package).                                                   *)
(*                                                                         *)
(* Spec     - one session: its read loop, the tasks calling Accept, Open,  *)
(*            Wait and Close, and the peer that produces the frames.       *)
(* RespondSpec - one RPC exchange on the responding side: Server.respond,  *)
(*            its handler and the responder.                               *)
(* CallSpec - one RPC exchange on the calling side: Server.Call, its       *)
(*            watcher and the peer's answer.                               *)
(* ShutdownSpec - Spec with the loop goroutine scheduled.                  *)
(* PairSpec - two sessions joined by in-memory pipes (rpctest.NewPair),    *)
(*            each with an Accept loop and tasks calling Open.             *)
(***************************************************************************)
EXTENDS Integers, Sequences, FiniteSets

\* ------------------------------------------------------------------ bounds
MaxEvents == 4       \* API calls (Accept, Open, Wait) plus frames the peer sends
MaxCalls == 2        \* calls a handler makes on its responder
MaxOpens == 2        \* tasks calling Open on each side of a pair of sessions

\* --------------------------------------------------------- program constants
\* A uint32 is kept as its two 16-bit halves: value = hi * 2^16 + lo
\* (the model checker's integers end at 2^31 - 1).
U32(hi, lo) == [hi |-> hi, lo |-> lo]
LtU32(a, b) == a.hi < b.hi \/ (a.hi = b.hi /\ a.lo < b.lo)
minPacketLength == U32(0, 9)
maxPacketLength == U32(32768, 0)     \* 1 << 31
chanSize == 16

\* the values a handler passes to Send, and the lists it passes to Return and
\* Continue: none, one value, a single error, two values
Values == {"a", "error"}
ValueLists == {<<>>, <<"a">>, <<"error">>, <<"a", "a">>, <<"a", "error">>}

\* the tasks calling the session API
Procs == {1, 2}
\* max_packet_size is a uint32; the values around both ends of the valid range
PacketSizes == {U32(0, 8), U32(0, 9), U32(32767, 65535), U32(32768, 0),
                U32(32768, 1)}
\* the sender id of an Open frame that is the n-th event (the ids are kept apart
\* from the local ids 0, 1, ...)
SenderID(n) == 4 + n
ChanFrameKinds == {"OpenConfirm", "OpenFailure", "Data"}

VARIABLES
    \* ---- session
    closeCalled, \* s.Close() has been called
    tClosed,     \* s.t has been closed
    chans,       \* s.chans: slot i+1 holds the channel with local id i, 0 = nil
    chs,         \* the channel objects ever allocated, by object number
    wrote,       \* the frames onePacket has written for the current message
    closeCh,     \* number of values buffered in s.closeCh (capacity 1)
    err,         \* s.err
    lpc,         \* where the goroutine running session.loop is
    lerr,        \* loop's local variable err
    msg,         \* onePacket's local variable msg, while it is live
    offer,       \* the channel handleOpen is sending on s.inbox, 0 = none
    \* ---- tasks using the session
    pc,          \* per task: idle, in accept / open / wait, or ret (returned)
    cur,         \* per task: the channel its last Open allocated
    ctx,         \* per task: the context of its Open is done
    after,       \* per task: its last call began after Close had completed
    res,         \* per task: what its last completed call returned
    events,      \* API calls made and frames decoded so far
    \* ---- shutdown history
    dropped,     \* the channels dropAll returned to loop
    dropDone,    \* loop has run dropAll and the close routines
    loopClosedT, \* loop has run s.t.Close()
    signalled    \* number of values loop has sent on s.closeCh

VARIABLES
    rpc,         \* Server.respond: where the responder task is
    responded,   \* resp.responded
    header,      \* resp.header
    out,         \* the framed values encoded on the responder's channel
    rch,         \* the responder's channel: closed (ch.Close() called), broken
    calls,       \* calls the handler has made on the responder
    hresp,       \* the handler itself called Return or Continue
    lastErr,     \* what the last Return/Continue returned
    lastCall     \* the last Return/Continue: its number and its values

VARIABLES
    cpc,         \* Server.Call: where the calling task is
    ctxDone,     \* ctx has been cancelled
    watcher,     \* the watcher goroutine of Call: "none", "waiting", "exited"
    doneClosed,  \* close(done) has run
    cch,         \* the call's channel: closed (Close() called on it)
    callErr,     \* the error call() returned
    callRes,     \* what Call returned
    respHeader,  \* the ResponseHeader call() decoded
    cancelledInFlight, \* ctx was cancelled after Open and before call() returned
    watcherClosed      \* the watcher ran ch.Close()

VARIABLES
    \* ---- a pair of sessions over two pipes
    ploop,   \* where each side's loop goroutine is
    pmsg,    \* the frame each side's loop holds
    popen,   \* where each task calling Open is
    pacc     \* where each side's Accept loop is

svars == <<closeCalled, tClosed, chans, chs, wrote, closeCh, err, lpc, lerr, msg, offer,
           pc, cur, ctx, after, res, events, dropped, dropDone, loopClosedT, signalled>>

rvars == <<rpc, responded, header, out, rch, calls, hresp, lastErr, lastCall>>
cvars == <<cpc, ctxDone, watcher, doneClosed, cch, callErr, callRes, respHeader,
           cancelledInFlight, watcherClosed>>
pvars == <<ploop, pmsg, popen, pacc>>
vars == <<svars, rvars, cvars, pvars>>

NoRes == [op |-> "none", ch |-> 0, err |-> "nil"]
NoMsg == [kind |-> "none", id |-> 0, mps |-> U32(0, 0)]

\* a pair of sessions: the two sides, the tasks that call Open on a side, and
\* the frame a loop holds (id: the opener's channel)
Sides == {1, 2}
Peer(s) == 3 - s
Openers == 1..MaxOpens
NoFrame == [kind |-> "none", id |-> 0]

\* ------------------------------------------------------------ channel table
Objs == 1..Len(chs)
InTable(o) == \E i \in 1..Len(chans) : chans[i] = o
Live == {chans[i] : i \in 1..Len(chans)} \ {0}

\* chanList.add: the lowest free slot, or a new slot at the end
FreeSlots(t) == {i \in 1..Len(t) : t[i] = 0}
Min(S) == CHOOSE x \in S : \A y \in S : x <= y
add(t, o) ==
    IF FreeSlots(t) # {}
    THEN [table |-> [t EXCEPT ![Min(FreeSlots(t))] = o], id |-> Min(FreeSlots(t)) - 1]
    ELSE [table |-> Append(t, o), id |-> Len(t)]

\* chanList.getChan: the channel with that local id, 0 = nil
getChan(id) == IF id + 1 \in 1..Len(chans) THEN chans[id + 1] ELSE 0

\* chanList.remove
remove(t, id) == IF id + 1 \in 1..Len(t) THEN [t EXCEPT ![id + 1] = 0] ELSE t

\* chanList.dropAll: empties the table and returns what was in it
dropAll(t) == [table |-> <<>>, chans |-> {t[i] : i \in 1..Len(t)} \ {0}]

\* a channel object: the fields of channel the handshake uses, and its history
\* (ctl: all that was ever put on msg, nil for its closing; sent: the frames
\* written for it; fate: how handleOpen ended for it; cancelled: its Open
\* returned on ctx.Done)
Channel(localId, direction) ==
    [localId |-> localId, direction |-> direction, remoteId |-> 0,
     msg |-> <<>>, closed |-> FALSE,
     ctl |-> <<>>, sent |-> <<>>, fate |-> "none", cancelled |-> FALSE]

\* newChannel with a fault: the id is the count of live channels, not add's
newChannelByCount(direction) ==
    LET r == add(chans, Len(chs) + 1)
    IN  [chans |-> r.table, ch |-> Channel(Cardinality(Live), direction)]

\* session.newChannel: a fresh channel, entered in the table, localId from add
newChannel(direction) ==
    LET r == add(chans, Len(chs) + 1)
    IN  [chans |-> r.table, ch |-> Channel(r.id, direction)]

\* channel.close: closes ch.msg (a receive then yields nil)
close(c) == [c EXCEPT !.closed = TRUE, !.ctl = Append(@, "nil")]

\* Garbage collection: a channel object that neither the table nor a task nor
\* handleOpen refers to any more keeps only whether it was closed.
Collected(c) == [Channel(0, "none") EXCEPT !.closed = c.closed]
Collect(heap, table, held) ==
    [o \in 1..Len(heap) |->
        IF o \in held \/ (\E i \in 1..Len(table) : table[i] = o)
        THEN heap[o] ELSE Collected(heap[o])]

\* frame.Encoder.Encode on s.t: fails once the transport is closed
EncodeOk == ~tClosed

Frame(type, channelID, senderID) ==
    [type |-> type, ChannelID |-> channelID, SenderID |-> senderID]

\* ------------------------------------------------------------------ Init
SInit ==
    /\ closeCalled = FALSE
    /\ tClosed = FALSE
    /\ chans = <<>>
    /\ chs = <<>>
    /\ wrote = <<>>
    /\ closeCh = 0
    /\ err = "nil"
    /\ lpc = "run"
    /\ lerr = "nil"
    /\ msg = NoMsg
    /\ offer = 0
    /\ pc = [p \in Procs |-> "idle"]
    /\ cur = [p \in Procs |-> 0]
    /\ ctx = [p \in Procs |-> FALSE]
    /\ after = [p \in Procs |-> FALSE]
    /\ res = [p \in Procs |-> NoRes]
    /\ events = 0
    /\ dropped = {}
    /\ dropDone = FALSE
    /\ loopClosedT = FALSE
    /\ signalled = 0

\* the responder task of Server.respond starts on a freshly accepted channel
RInit ==
    /\ rpc = "decode"
    /\ responded = FALSE
    /\ header = [Continue |-> FALSE, Error |-> FALSE]
    /\ out = <<>>
    /\ rch = [closed |-> FALSE, broken |-> FALSE]
    /\ calls = 0
    /\ hresp = FALSE
    /\ lastErr = "none"
    /\ lastCall = [n |-> 0, values |-> <<>>]

\* Server.Call has not started
CInit ==
    /\ cpc = "start"
    /\ ctxDone = FALSE
    /\ watcher = "none"
    /\ doneClosed = FALSE
    /\ cch = [closed |-> FALSE]
    /\ callErr = [resp |-> FALSE, err |-> "none"]
    /\ callRes = [resp |-> FALSE, err |-> "none"]
    /\ respHeader = [Continue |-> FALSE, Error |-> FALSE]
    /\ cancelledInFlight = FALSE
    /\ watcherClosed = FALSE

\* NewPair: both sessions made, both loops reading, the Accept loops running
PInit ==
    /\ ploop = [s \in Sides |-> "decode"]
    /\ pmsg = [s \in Sides |-> NoFrame]
    /\ popen = [s \in Sides |-> [k \in Openers |-> "idle"]]
    /\ pacc = [s \in Sides |-> "accept"]

Init == SInit /\ RInit /\ CInit /\ PInit

\* ------------------------------------------------------------ session API
\* Close has completed: the transport is closed and loop has run its shutdown
CloseCompleted == closeCalled /\ tClosed /\ lpc = "done"

\* session.Close
Close ==
    /\ ~closeCalled
    /\ closeCalled' = TRUE
    /\ tClosed' = TRUE
    /\ UNCHANGED <<rvars, cvars, pvars>>
    /\ UNCHANGED <<chans, chs, wrote, closeCh, err, lpc, lerr, msg, offer, pc,
                   cur, ctx, after, res, events, dropped, dropDone,
                   loopClosedT, signalled>>

\* a task is free to make a call (the tasks are alike: the lowest free one does)
Free(p) == pc[p] = "idle" /\ \A q \in Procs : q < p => pc[q] # "idle"

Begin(p, to) ==
    /\ Free(p)
    /\ events < MaxEvents
    /\ events' = events + 1
    /\ pc' = [pc EXCEPT ![p] = to]
    /\ after' = [after EXCEPT ![p] = CloseCompleted]

Finish(p, r) ==
    /\ pc' = [pc EXCEPT ![p] = "ret"]
    /\ res' = [res EXCEPT ![p] = r]

\* the caller takes the result; the task is free again
Forget(p) ==
    /\ pc[p] = "ret"
    /\ pc' = [pc EXCEPT ![p] = "idle"]
    /\ res' = [res EXCEPT ![p] = NoRes]
    /\ cur' = [cur EXCEPT ![p] = 0]
    /\ ctx' = [ctx EXCEPT ![p] = FALSE]
    /\ after' = [after EXCEPT ![p] = FALSE]
    /\ chs' = Collect(chs, chans, {cur[q] : q \in Procs \ {p}} \cup {offer})
    /\ UNCHANGED <<rvars, cvars, pvars>>
    /\ UNCHANGED <<closeCalled, tClosed, chans, wrote, closeCh, err, lpc, lerr, msg,
                   offer, events, dropped, dropDone, loopClosedT, signalled>>

\* session.Wait: entry
WaitCall(p) ==
    /\ Begin(p, "wait")
    /\ UNCHANGED <<rvars, cvars, pvars>>
    /\ UNCHANGED <<closeCalled, tClosed, chans, chs, wrote, closeCh, err, lpc, lerr, msg,
                   offer, cur, ctx, res, dropped, dropDone,
                   loopClosedT, signalled>>

\* Wait with a fault: returns s.err without waiting for it to be set
WaitReturnNoLoop(p) ==
    /\ pc[p] = "wait"
    /\ Finish(p, [op |-> "Wait", ch |-> 0, err |-> err])
    /\ UNCHANGED <<rvars, cvars, pvars>>
    /\ UNCHANGED <<closeCalled, tClosed, chans, chs, wrote, closeCh, err, lpc, lerr, msg,
                   offer, cur, ctx, after, events, dropped,
                   dropDone, loopClosedT, signalled>>

\* session.Wait: for s.err == nil { s.errCond.Wait() }; return s.err
WaitReturn(p) ==
    /\ pc[p] = "wait"
    /\ err # "nil"
    /\ Finish(p, [op |-> "Wait", ch |-> 0, err |-> err])
    /\ UNCHANGED <<rvars, cvars, pvars>>
    /\ UNCHANGED <<closeCalled, tClosed, chans, chs, wrote, closeCh, err, lpc, lerr, msg,
                   offer, cur, ctx, after, events, dropped,
                   dropDone, loopClosedT, signalled>>

\* session.Accept: entry into the select
AcceptCall(p) ==
    /\ Begin(p, "accept")
    /\ UNCHANGED <<rvars, cvars, pvars>>
    /\ UNCHANGED <<closeCalled, tClosed, chans, chs, wrote, closeCh, err, lpc, lerr, msg,
                   offer, cur, ctx, res, dropped, dropDone,
                   loopClosedT, signalled>>

\* session.Accept: case <-s.closeCh
AcceptClosed(p) ==
    /\ pc[p] = "accept"
    /\ closeCh > 0
    /\ closeCh' = closeCh - 1
    /\ Finish(p, [op |-> "Accept", ch |-> 0, err |-> "EOF"])
    /\ UNCHANGED <<rvars, cvars, pvars>>
    /\ UNCHANGED <<closeCalled, tClosed, chans, chs, wrote, err, lpc, lerr, msg, offer,
                   cur, ctx, after, events, dropped, dropDone,
                   loopClosedT, signalled>>

\* Open with a fault: an OpenFailure is taken for a confirmation
OpenResultLenient(m, o) ==
    CASE m = "nil" -> [ch |-> 0, err |-> "closed"]
      [] m \in {"OpenConfirm", "OpenFailure"} -> [ch |-> o, err |-> "nil"]
      [] OTHER -> [ch |-> 0, err |-> "unexpected packet"]

\* session.Open: what it returns for the message m received on ch.msg
OpenResult(m, o) ==
    CASE m = "nil" -> [ch |-> 0, err |-> "closed"]
      [] m = "OpenConfirm" -> [ch |-> o, err |-> "nil"]
      [] m = "OpenFailure" -> [ch |-> 0, err |-> "channel open failed"]
      [] OTHER -> [ch |-> 0, err |-> "unexpected packet"]

\* session.Open up to the select: newChannel, then Encode(OpenMessage)
OpenCall(p) ==
    /\ Free(p)
    /\ events < MaxEvents
    /\ events' = events + 1
    /\ after' = [after EXCEPT ![p] = CloseCompleted]
    /\ LET n == newChannel("outbound")
           o == Len(chs) + 1
       IN  /\ chans' = n.chans
           /\ cur' = [cur EXCEPT ![p] = o]
           /\ ctx' = [ctx EXCEPT ![p] = FALSE]
           /\ IF EncodeOk
              THEN /\ chs' = Append(chs, [n.ch EXCEPT !.sent =
                                              <<Frame("Open", 0, n.ch.localId)>>])
                   /\ pc' = [pc EXCEPT ![p] = "open"]
                   /\ res' = res
              ELSE /\ chs' = Append(chs, n.ch)
                   /\ Finish(p, [op |-> "Open", ch |-> 0, err |-> "write"])
    /\ UNCHANGED <<rvars, cvars, pvars>>
    /\ UNCHANGED <<closeCalled, tClosed, wrote, closeCh, err, lpc, lerr, msg, offer, dropped, dropDone, loopClosedT, signalled>>

\* the context passed to Open is cancelled while Open waits
CtxCancel(p) ==
    /\ pc[p] = "open"
    /\ ~ctx[p]
    /\ ctx' = [ctx EXCEPT ![p] = TRUE]
    /\ UNCHANGED <<rvars, cvars, pvars>>
    /\ UNCHANGED <<closeCalled, tClosed, chans, chs, wrote, closeCh, err, lpc, lerr, msg,
                   offer, pc, cur, after, res, events, dropped,
                   dropDone, loopClosedT, signalled>>

\* Open with a fault: on ctx.Done it takes its channel out of the table
OpenCtxDoneRemoving(p) ==
    /\ pc[p] = "open"
    /\ ctx[p]
    /\ chs' = [chs EXCEPT ![cur[p]].cancelled = TRUE]
    /\ chans' = remove(chans, chs[cur[p]].localId)
    /\ Finish(p, [op |-> "Open", ch |-> 0, err |-> "ctx"])
    /\ UNCHANGED <<rvars, cvars, pvars>>
    /\ UNCHANGED <<closeCalled, tClosed, wrote, closeCh, err, lpc, lerr, msg, offer,
                   cur, ctx, after, events, dropped, dropDone,
                   loopClosedT, signalled>>

\* session.Open: case <-ctx.Done(): return nil, ctx.Err()
OpenCtxDone(p) ==
    /\ pc[p] = "open"
    /\ ctx[p]
    /\ chs' = [chs EXCEPT ![cur[p]].cancelled = TRUE]
    /\ Finish(p, [op |-> "Open", ch |-> 0, err |-> "ctx"])
    /\ UNCHANGED <<rvars, cvars, pvars>>
    /\ UNCHANGED <<closeCalled, tClosed, chans, wrote, closeCh, err, lpc, lerr, msg, offer,
                   cur, ctx, after, events, dropped, dropDone,
                   loopClosedT, signalled>>

\* session.Open: case m = <-ch.msg, and the switch on m
OpenRecv(p) ==
    /\ pc[p] = "open"
    /\ LET o == cur[p]
           m == IF chs[o].msg # <<>> THEN Head(chs[o].msg) ELSE "nil"
           r == OpenResult(m, o)
       IN  /\ chs[o].msg # <<>> \/ chs[o].closed
           /\ chs' = [chs EXCEPT ![o].msg = IF @ # <<>> THEN Tail(@) ELSE @]
           /\ Finish(p, [op |-> "Open", ch |-> r.ch, err |-> r.err])
    /\ UNCHANGED <<rvars, cvars, pvars>>
    /\ UNCHANGED <<closeCalled, tClosed, chans, wrote, closeCh, err, lpc, lerr, msg, offer,
                   cur, ctx, after, events, dropped, dropDone,
                   loopClosedT, signalled>>

\* channel.Write by the task that got the channel from Accept or Open: a Data
\* frame for the peer's id goes to the transport (the window was seeded before
\* the channel was handed out); one write per channel is followed
ChanWrite(p) ==
    /\ pc[p] = "ret"
    /\ res[p].op \in {"Accept", "Open"}
    /\ res[p].ch # 0
    /\ EncodeOk
    /\ ~chs[res[p].ch].closed
    /\ \A i \in 1..Len(chs[res[p].ch].sent) : chs[res[p].ch].sent[i].type # "Data"
    /\ chs' = [chs EXCEPT ![res[p].ch].sent =
                   Append(@, Frame("Data", chs[res[p].ch].remoteId, 0))]
    /\ UNCHANGED <<rvars, cvars, pvars>>
    /\ UNCHANGED <<closeCalled, tClosed, chans, wrote, closeCh, err, lpc, lerr, msg,
                   offer, pc, cur, ctx, after, res, events, dropped, dropDone,
                   loopClosedT, signalled>>

\* ------------------------------------------------------------ the read loop
\* handleOpen's test of msg.MaxPacketSize
ValidPacketSize(mps) ==
    ~(LtU32(mps, minPacketLength) \/ LtU32(maxPacketLength, mps))

\* onePacket: s.dec.Decode() fails (the transport is closed, or the peer is gone)
DecodeError ==
    /\ lpc = "run"
    /\ lerr' = IF tClosed THEN "closed" ELSE "EOF"
    /\ lpc' = "dropAll"
    /\ wrote' = <<>>
    /\ UNCHANGED <<rvars, cvars, pvars>>
    /\ UNCHANGED <<closeCalled, tClosed, chans, chs, closeCh, err, msg, offer,
                   pc, cur, ctx, after, res, events, dropped,
                   dropDone, loopClosedT, signalled>>

\* onePacket: s.dec.Decode() returns an Open frame
DecodeOpen(mps) ==
    /\ lpc = "run"
    /\ ~tClosed
    /\ events < MaxEvents
    /\ events' = events + 1
    /\ wrote' = <<>>
    /\ msg' = [kind |-> "Open", id |-> SenderID(events + 1), mps |-> mps]
    /\ lpc' = "handleOpen"
    /\ UNCHANGED <<rvars, cvars, pvars>>
    /\ UNCHANGED <<closeCalled, tClosed, chans, chs, closeCh, err, lerr, offer, pc, cur, ctx,
                   after, res, dropped, dropDone, loopClosedT, signalled>>

\* onePacket: s.dec.Decode() returns a frame that carries a channel id
DecodeChan(kind, id) ==
    /\ lpc = "run"
    /\ ~tClosed
    /\ events < MaxEvents
    /\ events' = events + 1
    /\ wrote' = <<>>
    /\ msg' = [kind |-> kind, id |-> id, mps |-> U32(0, 0)]
    /\ lpc' = "dispatch"
    /\ UNCHANGED <<rvars, cvars, pvars>>
    /\ UNCHANGED <<closeCalled, tClosed, chans, chs, closeCh, err, lerr, offer, pc, cur, ctx,
                   after, res, dropped, dropDone, loopClosedT, signalled>>

\* the loop goes on after onePacket returned e
LoopOn(e) ==
    /\ lerr' = e
    /\ lpc' = IF e = "nil" THEN "run" ELSE "dropAll"
    /\ msg' = NoMsg
    /\ offer' = 0

\* handleOpen up to its select: the size test, then newChannel
\* (msg.MaxPacketSize is not read again once the test has passed)
HandleOpen ==
    /\ lpc = "handleOpen"
    /\ IF ~ValidPacketSize(msg.mps)
       THEN /\ IF EncodeOk
               THEN /\ wrote' = <<Frame("OpenFailure", msg.id, 0)>>
                    /\ LoopOn("nil")
               ELSE /\ wrote' = wrote
                    /\ LoopOn("closed")
            /\ UNCHANGED <<chans, chs>>
       ELSE LET n == newChannel("inbound")
                o == Len(chs) + 1
            IN  /\ chans' = n.chans
                /\ chs' = Append(chs, [n.ch EXCEPT !.remoteId = msg.id,
                                                   !.fate = "offered"])
                /\ offer' = o
                /\ lpc' = "offer"
                /\ msg' = [msg EXCEPT !.mps = U32(0, 0)]
                /\ UNCHANGED <<wrote, lerr>>
    /\ UNCHANGED <<rvars, cvars, pvars>>
    /\ UNCHANGED <<closeCalled, tClosed, closeCh, err, pc, cur, ctx, after, res,
                   events, dropped, dropDone, loopClosedT, signalled>>

\* handleOpen with a fault: after the hand-off the channel stays on offer
HandleOpenDeliverKeepsOffer(p) ==
    /\ lpc = "offer"
    /\ pc[p] = "accept"
    /\ chs' = [chs EXCEPT ![offer].fate = "accepted"]
    /\ Finish(p, [op |-> "Accept", ch |-> offer, err |-> "nil"])
    /\ lpc' = "offer"
    /\ UNCHANGED <<rvars, cvars, pvars>>
    /\ UNCHANGED <<closeCalled, tClosed, chans, wrote, closeCh, err, lerr, msg, offer,
                   cur, ctx, after, events, dropped, dropDone,
                   loopClosedT, signalled>>

\* handleOpen: case s.inbox <- c, met by the case ch := <-s.inbox of an Accept
HandleOpenDeliver(p) ==
    /\ lpc = "offer"
    /\ pc[p] = "accept"
    /\ chs' = [chs EXCEPT ![offer].fate = "accepted"]
    /\ Finish(p, [op |-> "Accept", ch |-> offer, err |-> "nil"])
    /\ lpc' = "confirm"
    /\ UNCHANGED <<rvars, cvars, pvars>>
    /\ UNCHANGED <<closeCalled, tClosed, chans, wrote, closeCh, err, lerr, msg, offer,
                   cur, ctx, after, events, dropped, dropDone,
                   loopClosedT, signalled>>

\* handleOpen: return s.enc.Encode(OpenConfirmMessage)
HandleOpenConfirm ==
    /\ lpc = "confirm"
    /\ IF EncodeOk
       THEN /\ wrote' = <<Frame("OpenConfirm", chs[offer].remoteId, chs[offer].localId)>>
            /\ chs' = [chs EXCEPT ![offer].fate = "confirmed",
                                  ![offer].sent = Append(@,
                                      Frame("OpenConfirm", chs[offer].remoteId,
                                            chs[offer].localId))]
            /\ LoopOn("nil")
       ELSE /\ wrote' = wrote
            /\ chs' = [chs EXCEPT ![offer].fate = "confirmFailed"]
            /\ LoopOn("closed")
    /\ UNCHANGED <<rvars, cvars, pvars>>
    /\ UNCHANGED <<closeCalled, tClosed, chans, closeCh, err, pc, cur, ctx, after,
                   res, events, dropped, dropDone, loopClosedT, signalled>>

\* handleOpen: case <-t.C: return s.enc.Encode(OpenFailureMessage)
HandleOpenTimeout ==
    /\ lpc = "offer"
    /\ IF EncodeOk
       THEN /\ wrote' = <<Frame("OpenFailure", msg.id, 0)>>
            /\ chs' = [chs EXCEPT ![offer].fate = "rejected",
                                  ![offer].sent = Append(@, Frame("OpenFailure", msg.id, 0))]
            /\ LoopOn("nil")
       ELSE /\ wrote' = wrote
            /\ chs' = [chs EXCEPT ![offer].fate = "rejectFailed"]
            /\ LoopOn("closed")
    /\ UNCHANGED <<rvars, cvars, pvars>>
    /\ UNCHANGED <<closeCalled, tClosed, chans, closeCh, err, pc, cur, ctx, after,
                   res, events, dropped, dropDone, loopClosedT, signalled>>

\* channel.handle for the control frames of the open handshake: the message is
\* put on ch.msg; an OpenFailure also takes the channel out of the table
handle(kind, o) ==
    CASE kind = "OpenConfirm" ->
           [chans |-> chans,
            chs |-> [chs EXCEPT ![o].msg = Append(@, kind), ![o].ctl = Append(@, kind)]]
      [] kind = "OpenFailure" ->
           [chans |-> remove(chans, chs[o].localId),
            chs |-> [chs EXCEPT ![o].msg = Append(@, kind), ![o].ctl = Append(@, kind)]]
      [] OTHER -> [chans |-> chans, chs |-> chs]

\* onePacket with a fault: a frame for an unknown channel id is skipped
DispatchSkippingUnknown ==
    /\ lpc = "dispatch"
    /\ LET o == getChan(msg.id)
       IN  IF o = 0
           THEN /\ LoopOn("nil")
                /\ UNCHANGED <<chans, chs>>
           ELSE /\ Len(chs[o].msg) < chanSize
                /\ chans' = handle(msg.kind, o).chans
                /\ chs' = Collect(handle(msg.kind, o).chs, handle(msg.kind, o).chans,
                                  {cur[q] : q \in Procs})
                /\ LoopOn("nil")
    /\ UNCHANGED <<rvars, cvars, pvars>>
    /\ UNCHANGED <<closeCalled, tClosed, wrote, closeCh, err, pc, cur, ctx,
                   after, res, events, dropped, dropDone, loopClosedT,
                   signalled>>

\* onePacket after Decode, for a frame that carries a channel id:
\* getChan, then ch.handle
Dispatch ==
    /\ lpc = "dispatch"
    /\ LET o == getChan(msg.id)
       IN  IF o = 0
           THEN /\ LoopOn("invalid channel")
                /\ UNCHANGED <<chans, chs>>
           ELSE /\ Len(chs[o].msg) < chanSize
                /\ chans' = handle(msg.kind, o).chans
                /\ chs' = Collect(handle(msg.kind, o).chs, handle(msg.kind, o).chans,
                                  {cur[q] : q \in Procs})
                /\ LoopOn("nil")
    /\ UNCHANGED <<rvars, cvars, pvars>>
    /\ UNCHANGED <<closeCalled, tClosed, wrote, closeCh, err, pc, cur, ctx,
                   after, res, events, dropped, dropDone, loopClosedT,
                   signalled>>

\* loop: for _, ch := range s.chans.dropAll() { ch.close() }
ShutdownDropAll ==
    /\ lpc = "dropAll"
    /\ LET d == dropAll(chans)
       IN  /\ chans' = d.table
           /\ chs' = Collect([o \in Objs |-> IF o \in d.chans THEN close(chs[o])
                                                            ELSE chs[o]],
                             d.table, {cur[q] : q \in Procs})
           /\ dropped' = d.chans
    /\ dropDone' = TRUE
    /\ lpc' = "closeT"
    /\ wrote' = <<>>
    /\ UNCHANGED <<rvars, cvars, pvars>>
    /\ UNCHANGED <<closeCalled, tClosed, closeCh, err, lerr, msg, offer, pc, cur, ctx, after,
                   res, events, loopClosedT, signalled>>

\* loop: s.t.Close()
ShutdownCloseT ==
    /\ lpc = "closeT"
    /\ tClosed' = TRUE
    /\ loopClosedT' = TRUE
    /\ lpc' = "signal"
    /\ UNCHANGED <<rvars, cvars, pvars>>
    /\ UNCHANGED <<closeCalled, chans, chs, wrote, closeCh, err, lerr, msg, offer,
                   pc, cur, ctx, after, res, events, dropped,
                   dropDone, signalled>>

\* loop with a fault: closeCh has no buffer, the send waits for an Accept
ShutdownSignalUnbuffered ==
    /\ lpc = "signal"
    /\ \E p \in Procs :
           /\ pc[p] = "accept"
           /\ Finish(p, [op |-> "Accept", ch |-> 0, err |-> "EOF"])
    /\ signalled' = signalled + 1
    /\ lpc' = "storeErr"
    /\ UNCHANGED <<rvars, cvars, pvars>>
    /\ UNCHANGED <<closeCalled, tClosed, chans, chs, wrote, closeCh, err, lerr, msg, offer,
                   cur, ctx, after, events, dropped,
                   dropDone, loopClosedT>>

\* loop: s.closeCh <- true (a channel of capacity 1)
ShutdownSignal ==
    /\ lpc = "signal"
    /\ closeCh < 1
    /\ closeCh' = closeCh + 1
    /\ signalled' = signalled + 1
    /\ lpc' = "storeErr"
    /\ UNCHANGED <<rvars, cvars, pvars>>
    /\ UNCHANGED <<closeCalled, tClosed, chans, chs, wrote, err, lerr, msg, offer,
                   pc, cur, ctx, after, res, events, dropped,
                   dropDone, loopClosedT>>

\* loop: s.err = err; s.errCond.Broadcast()
ShutdownStoreErr ==
    /\ lpc = "storeErr"
    /\ err' = lerr
    /\ lpc' = "done"
    /\ UNCHANGED <<rvars, cvars, pvars>>
    /\ UNCHANGED <<closeCalled, tClosed, chans, chs, wrote, closeCh, lerr, msg, offer,
                   pc, cur, ctx, after, res, events, dropped,
                   dropDone, loopClosedT, signalled>>

Next ==
    \/ Close
    \/ \E p \in Procs : Forget(p)
    \/ \E p \in Procs : WaitCall(p)
    \/ \E p \in Procs : WaitReturn(p)
    \/ \E p \in Procs : AcceptCall(p)
    \/ \E p \in Procs : AcceptClosed(p)
    \/ \E p \in Procs : OpenCall(p)
    \/ \E p \in Procs : CtxCancel(p)
    \/ \E p \in Procs : OpenCtxDone(p)
    \/ \E p \in Procs : OpenRecv(p)
    \/ \E p \in Procs : ChanWrite(p)
    \/ DecodeError
    \/ \E mps \in PacketSizes : DecodeOpen(mps)
    \/ \E kind \in ChanFrameKinds, id \in 0..Len(chans) : DecodeChan(kind, id)
    \/ HandleOpen
    \/ \E p \in Procs : HandleOpenDeliver(p)
    \/ HandleOpenConfirm
    \/ HandleOpenTimeout
    \/ Dispatch
    \/ ShutdownDropAll
    \/ ShutdownCloseT
    \/ ShutdownSignal
    \/ ShutdownStoreErr

Spec == Init /\ [][Next]_vars

\* The loop goroutine and a task woken in Wait are scheduled; what the peer
\* sends and when tasks call the session is not forced.  A read on a closed
\* transport fails, and handleOpen's timer fires.
LoopProgress ==
    \/ (tClosed /\ DecodeError)
    \/ HandleOpen
    \/ HandleOpenConfirm
    \/ HandleOpenTimeout
    \/ Dispatch
    \/ ShutdownDropAll
    \/ ShutdownCloseT
    \/ ShutdownSignal
    \/ ShutdownStoreErr

ShutdownFairness ==
    /\ WF_vars(LoopProgress)
    /\ \A p \in Procs : WF_vars(WaitReturn(p))

ShutdownSpec == Init /\ [][Next]_vars /\ ShutdownFairness

\* ---------------------------------------------------------- rpc responder
HeaderFrame(h) == [k |-> "header", Continue |-> h.Continue, Error |-> h.Error, v |-> "-"]
ValueFrame(v) == [k |-> "value", Continue |-> FALSE, Error |-> FALSE, v |-> v]

\* respond: "if values is a single error, set values to [nil]"; "return `nil`
\* if there is no other return value"
IsSingleError(values) == Len(values) = 1 /\ values[1] = "error"
SentValues(values) ==
    IF IsSingleError(values) \/ values = <<>> THEN <<"nil">> ELSE values

\* r.Send succeeds while the channel is neither closed nor broken
Writable == ~rch.closed /\ ~rch.broken
\* how many of a call's k frames get written: all or, when the channel fails
\* under the call, fewer; none once it is closed or broken
Written(k) == IF Writable THEN 0..k ELSE {0}

\* respond with a fault: the channel is closed whatever continue_ says
respondAlwaysClose(values, continue_, n) ==
    LET h == [Continue |-> continue_, Error |-> header.Error \/ IsSingleError(values)]
        frames == <<HeaderFrame(h)>> \o
                  [i \in 1..Len(SentValues(values)) |-> ValueFrame(SentValues(values)[i])]
        ok == n = Len(frames)
    IN  [responded |-> TRUE,
         header |-> h,
         out |-> out \o SubSeq(frames, 1, n),
         rch |-> [closed |-> rch.closed \/ ok, broken |-> rch.broken \/ ~ok],
         err |-> IF ok THEN "nil" ELSE "write",
         call |-> [n |-> lastCall.n + 1, values |-> values]]

\* respond with a fault: a single error is sent as the value, not as nil
respondSendsError(values, continue_, n) ==
    LET h == [Continue |-> continue_, Error |-> header.Error \/ IsSingleError(values)]
        sent == IF values = <<>> THEN <<"nil">> ELSE values
        frames == <<HeaderFrame(h)>> \o [i \in 1..Len(sent) |-> ValueFrame(sent[i])]
        ok == n = Len(frames)
    IN  [responded |-> TRUE,
         header |-> h,
         out |-> out \o SubSeq(frames, 1, n),
         rch |-> [closed |-> rch.closed \/ (ok /\ ~continue_),
                  broken |-> rch.broken \/ ~ok],
         err |-> IF ok THEN "nil" ELSE "write",
         call |-> [n |-> lastCall.n + 1, values |-> values]]

\* responder.respond(values, continue_), of which n frames get written
respond(values, continue_, n) ==
    LET h == [Continue |-> continue_, Error |-> header.Error \/ IsSingleError(values)]
        frames == <<HeaderFrame(h)>> \o
                  [i \in 1..Len(SentValues(values)) |-> ValueFrame(SentValues(values)[i])]
        ok == n = Len(frames)
    IN  [responded |-> TRUE,
         header |-> h,
         out |-> out \o SubSeq(frames, 1, n),
         rch |-> [closed |-> rch.closed \/ (ok /\ ~continue_),
                  broken |-> rch.broken \/ ~ok],
         err |-> IF ok THEN "nil" ELSE "write",
         call |-> [n |-> lastCall.n + 1, values |-> values]]

\* the state after a respond
Responded(r) ==
    /\ responded' = r.responded
    /\ header' = r.header
    /\ out' = r.out
    /\ rch' = r.rch
    /\ lastErr' = r.err
    /\ lastCall' = r.call

\* Server.respond: dec.Decode(&call) succeeds, or fails and the task returns
RespondDecode ==
    /\ rpc = "decode"
    /\ \/ rpc' = "handler" /\ rch' = rch
       \/ rpc' = "decodeFailed" /\ rch' \in {rch, [rch EXCEPT !.broken = TRUE]}
    /\ UNCHANGED <<responded, header, out, calls, hresp, lastErr, lastCall>>
    /\ UNCHANGED <<svars, cvars, pvars>>

\* the handler calls r.Return(values...)
Return(values) ==
    /\ rpc = "handler"
    /\ calls < MaxCalls
    /\ calls' = calls + 1
    /\ hresp' = TRUE
    /\ \E n \in Written(1 + Len(SentValues(values))) : Responded(respond(values, FALSE, n))
    /\ UNCHANGED rpc
    /\ UNCHANGED <<svars, cvars, pvars>>

\* the handler calls r.Continue(values...)
Continue(values) ==
    /\ rpc = "handler"
    /\ calls < MaxCalls
    /\ calls' = calls + 1
    /\ hresp' = TRUE
    /\ \E n \in Written(1 + Len(SentValues(values))) : Responded(respond(values, TRUE, n))
    /\ UNCHANGED rpc
    /\ UNCHANGED <<svars, cvars, pvars>>

\* the handler calls r.Send(v)
Send(v) ==
    /\ rpc = "handler"
    /\ calls < MaxCalls
    /\ calls' = calls + 1
    /\ \E n \in Written(1) :
           /\ out' = IF n = 1 THEN Append(out, ValueFrame(v)) ELSE out
           /\ rch' = [rch EXCEPT !.broken = @ \/ n = 0]
    /\ UNCHANGED <<rpc, responded, header, hresp, lastErr, lastCall>>
    /\ UNCHANGED <<svars, cvars, pvars>>

\* hn.RespondRPC returns
HandlerReturns ==
    /\ rpc = "handler"
    /\ rpc' = "auto"
    /\ UNCHANGED <<responded, header, out, rch, calls, hresp, lastErr, lastCall>>
    /\ UNCHANGED <<svars, cvars, pvars>>

\* Server.respond with a fault: no Return is made for the handler
RespondAutoSkipped ==
    /\ rpc = "auto"
    /\ rpc' = "close"
    /\ UNCHANGED <<responded, header, out, rch, lastErr, lastCall>>
    /\ UNCHANGED <<calls, hresp>>
    /\ UNCHANGED <<svars, cvars, pvars>>

\* Server.respond: if !resp.responded { resp.Return() }
RespondAuto ==
    /\ rpc = "auto"
    /\ rpc' = "close"
    /\ IF ~responded
       THEN \E n \in Written(2) : Responded(respond(<<>>, FALSE, n))
       ELSE UNCHANGED <<responded, header, out, rch, lastErr, lastCall>>
    /\ UNCHANGED <<calls, hresp>>
    /\ UNCHANGED <<svars, cvars, pvars>>

\* Server.respond: if !resp.header.Continue { ch.Close() }
RespondClose ==
    /\ rpc = "close"
    /\ rpc' = "done"
    /\ rch' = [rch EXCEPT !.closed = @ \/ ~header.Continue]
    /\ UNCHANGED <<responded, header, out, calls, hresp, lastErr, lastCall>>
    /\ UNCHANGED <<svars, cvars, pvars>>

RespondNext ==
    \/ RespondDecode
    \/ \E values \in ValueLists : Return(values)
    \/ \E values \in ValueLists : Continue(values)
    \/ \E v \in Values : Send(v)
    \/ HandlerReturns
    \/ RespondAuto
    \/ RespondClose

RespondSpec == Init /\ [][RespondNext]_vars

\* ------------------------------------------------------------- rpc caller
InFlight == {"send", "await", "reply"}

\* ctx is cancelled (at any time)
CallCtxCancel ==
    /\ ~ctxDone
    /\ ctxDone' = TRUE
    /\ cancelledInFlight' = (cpc \in InFlight)
    /\ UNCHANGED <<cpc, watcher, doneClosed, cch, callErr, callRes, respHeader,
                   watcherClosed>>
    /\ UNCHANGED <<svars, rvars, pvars>>

\* Call: s.sess.Open(ctx) fails, and Call returns its error
CallOpenFails ==
    /\ cpc = "start"
    /\ cpc' = "returned"
    /\ \E e \in (IF ctxDone THEN {"ctx", "open failed"} ELSE {"open failed"}) :
           callRes' = [resp |-> FALSE, err |-> e]
    /\ UNCHANGED <<ctxDone, watcher, doneClosed, cch, callErr, respHeader,
                   cancelledInFlight, watcherClosed>>
    /\ UNCHANGED <<svars, rvars, pvars>>

\* Call: s.sess.Open(ctx) returns the channel; done is made, the watcher started
CallOpen ==
    /\ cpc = "start"
    /\ cpc' = "send"
    /\ watcher' = "waiting"
    /\ UNCHANGED <<ctxDone, doneClosed, cch, callErr, callRes, respHeader,
                   cancelledInFlight, watcherClosed>>
    /\ UNCHANGED <<svars, rvars, pvars>>

\* call(): the CallHeader and the arguments are encoded, or the encoding fails
\* (it does on a closed channel), the channel is closed and call returns
CallSend ==
    /\ cpc = "send"
    /\ \/ /\ ~cch.closed
          /\ cpc' = "await"
          /\ UNCHANGED <<cch, callErr>>
       \/ /\ cpc' = "check"
          /\ cch' = [cch EXCEPT !.closed = TRUE]
          /\ callErr' = [resp |-> FALSE, err |-> "write"]
    /\ UNCHANGED <<ctxDone, watcher, doneClosed, callRes, respHeader,
                   cancelledInFlight, watcherClosed>>
    /\ UNCHANGED <<svars, rvars, pvars>>

\* call(): the ResponseHeader arrives and is decoded
CallHeader(h) ==
    /\ cpc = "await"
    /\ ~cch.closed
    /\ respHeader' = h
    /\ IF h.Error
       THEN /\ cpc' = "check"
            /\ callErr' = [resp |-> TRUE, err |-> "remote"]
            /\ cch' = [cch EXCEPT !.closed = @ \/ ~h.Continue]
       ELSE /\ cpc' = "reply"
            /\ UNCHANGED <<cch, callErr>>
    /\ UNCHANGED <<ctxDone, watcher, doneClosed, callRes, cancelledInFlight,
                   watcherClosed>>
    /\ UNCHANGED <<svars, rvars, pvars>>

\* call(): decoding the ResponseHeader fails because the channel was closed
CallHeaderClosed ==
    /\ cpc = "await"
    /\ cch.closed
    /\ cpc' = "check"
    /\ callErr' = [resp |-> FALSE, err |-> "closed"]
    /\ UNCHANGED <<ctxDone, watcher, doneClosed, cch, callRes, respHeader,
                   cancelledInFlight, watcherClosed>>
    /\ UNCHANGED <<svars, rvars, pvars>>

\* call(): decoding the ResponseHeader fails because the peer ended the channel
CallHeaderEOF ==
    /\ cpc = "await"
    /\ ~cch.closed
    /\ cpc' = "check"
    /\ callErr' = [resp |-> FALSE, err |-> "EOF"]
    /\ cch' = [cch EXCEPT !.closed = TRUE]
    /\ UNCHANGED <<ctxDone, watcher, doneClosed, callRes, respHeader,
                   cancelledInFlight, watcherClosed>>
    /\ UNCHANGED <<svars, rvars, pvars>>

\* call(): the reply values are decoded (or the decoding fails), call returns;
\* the deferred ch.Close() runs when the header did not say continue
CallReply ==
    /\ cpc = "reply"
    /\ cpc' = "check"
    /\ \E e \in (IF cch.closed THEN {"closed"} ELSE {"nil", "EOF"}) :
           callErr' = [resp |-> TRUE, err |-> e]
    /\ cch' = [cch EXCEPT !.closed = @ \/ ~respHeader.Continue]
    /\ UNCHANGED <<ctxDone, watcher, doneClosed, callRes, respHeader,
                   cancelledInFlight, watcherClosed>>
    /\ UNCHANGED <<svars, rvars, pvars>>

\* Call with a fault: returns what call() returned, ctx.Err() is not looked at
CallReturnNoCtxCheck ==
    /\ cpc = "check"
    /\ cpc' = "returned"
    /\ callRes' = callErr
    /\ doneClosed' = TRUE
    /\ UNCHANGED <<ctxDone, watcher, cch, callErr, respHeader, cancelledInFlight,
                   watcherClosed>>
    /\ UNCHANGED <<svars, rvars, pvars>>

\* Call: if ctxErr := ctx.Err(); ctxErr != nil { return resp, ctxErr };
\* return resp, err; and the deferred close(done)
CallReturn ==
    /\ cpc = "check"
    /\ cpc' = "returned"
    /\ callRes' = [callErr EXCEPT !.err = IF ctxDone THEN "ctx" ELSE @]
    /\ doneClosed' = TRUE
    /\ UNCHANGED <<ctxDone, watcher, cch, callErr, respHeader, cancelledInFlight,
                   watcherClosed>>
    /\ UNCHANGED <<svars, rvars, pvars>>

\* the watcher: case <-ctx.Done(): ch.Close()
WatcherClose ==
    /\ watcher = "waiting"
    /\ ctxDone
    /\ watcher' = "exited"
    /\ cch' = [cch EXCEPT !.closed = TRUE]
    /\ watcherClosed' = TRUE
    /\ UNCHANGED <<cpc, ctxDone, doneClosed, callErr, callRes, respHeader,
                   cancelledInFlight>>
    /\ UNCHANGED <<svars, rvars, pvars>>

\* the watcher: case <-done:
WatcherDone ==
    /\ watcher = "waiting"
    /\ doneClosed
    /\ watcher' = "exited"
    /\ UNCHANGED <<cpc, ctxDone, doneClosed, cch, callErr, callRes, respHeader,
                   cancelledInFlight, watcherClosed>>
    /\ UNCHANGED <<svars, rvars, pvars>>

Headers == [Continue : BOOLEAN, Error : BOOLEAN]

CallNext ==
    \/ CallCtxCancel
    \/ CallOpenFails
    \/ CallOpen
    \/ CallSend
    \/ \E h \in Headers : CallHeader(h)
    \/ CallHeaderClosed
    \/ CallHeaderEOF
    \/ CallReply
    \/ CallReturn
    \/ WatcherClose
    \/ WatcherDone

\* the goroutines of Call are scheduled: the calling task keeps running and the
\* watcher takes a ready case; nothing makes the peer answer
CallFairness ==
    /\ WF_vars(CallSend)
    /\ WF_vars(CallHeaderClosed)
    /\ WF_vars(CallReply)
    /\ WF_vars(CallReturn)
    /\ WF_vars(WatcherClose \/ WatcherDone)

CallSpec == Init /\ [][CallNext]_vars /\ CallFairness

\* ------------------------------------------------------- a pair of sessions
\* Two sessions over io.Pipe pipes: a Write returns when the peer has read
\* what was written, Writes on one pipe go one at a time, and only a loop's
\* Decode reads.  Each side has a task that calls Accept in a loop and tasks
\* that call Open with a context that is never cancelled.

\* nobody is writing on side s's pipe
WriterFree(s) ==
    /\ ploop[s] # "encode"
    /\ \A k \in Openers : popen[s][k] # "encode"

\* session.Open: newChannel, then Encode(OpenMessage) starts its Write
PairOpen(s, k) ==
    /\ popen[s][k] = "idle"
    /\ WriterFree(s)
    /\ popen' = [popen EXCEPT ![s][k] = "encode"]
    /\ UNCHANGED <<ploop, pmsg, pacc>>
    /\ UNCHANGED <<svars, rvars, cvars>>

\* the peer's loop decodes the Open frame: the opener's Write returns and it
\* goes to its select; the loop goes to handleOpen, newChannel, its select
PairDecodeOpen(s, k) ==
    /\ popen[s][k] = "encode"
    /\ ploop[Peer(s)] = "decode"
    /\ popen' = [popen EXCEPT ![s][k] = "select"]
    /\ ploop' = [ploop EXCEPT ![Peer(s)] = "offer"]
    /\ pmsg' = [pmsg EXCEPT ![Peer(s)] = [kind |-> "Open", id |-> k]]
    /\ UNCHANGED pacc
    /\ UNCHANGED <<svars, rvars, cvars>>

\* handleOpen: case s.inbox <- c, met by the Accept of the Accept loop;
\* Encode(OpenConfirmMessage) is next
PairDeliver(s) ==
    /\ ploop[s] = "offer"
    /\ pacc[s] = "accept"
    /\ ploop' = [ploop EXCEPT ![s] = "reply"]
    /\ pmsg' = [pmsg EXCEPT ![s].kind = "OpenConfirm"]
    /\ pacc' = [pacc EXCEPT ![s] = "busy"]
    /\ UNCHANGED popen
    /\ UNCHANGED <<svars, rvars, cvars>>

\* handleOpen: case <-t.C, which is not taken while a task waits in Accept
\* (the hand-off is ready at once, the timer after openTimeout);
\* Encode(OpenFailureMessage) is next
PairTimeout(s) ==
    /\ ploop[s] = "offer"
    /\ pacc[s] = "busy"
    /\ ploop' = [ploop EXCEPT ![s] = "reply"]
    /\ pmsg' = [pmsg EXCEPT ![s].kind = "OpenFailure"]
    /\ UNCHANGED <<popen, pacc>>
    /\ UNCHANGED <<svars, rvars, cvars>>

\* handleOpen: s.enc.Encode of the reply starts its Write
PairEncode(s) ==
    /\ ploop[s] = "reply"
    /\ WriterFree(s)
    /\ ploop' = [ploop EXCEPT ![s] = "encode"]
    /\ UNCHANGED <<pmsg, popen, pacc>>
    /\ UNCHANGED <<svars, rvars, cvars>>

\* the Accept loop has passed its channel on and calls Accept again
PairAcceptAgain(s) ==
    /\ pacc[s] = "busy"
    /\ pacc' = [pacc EXCEPT ![s] = "accept"]
    /\ UNCHANGED <<ploop, pmsg, popen>>
    /\ UNCHANGED <<svars, rvars, cvars>>

\* the peer's loop decodes the OpenConfirm or OpenFailure: the writing loop's
\* Encode returns nil and it reads again; the reading loop goes to getChan
PairDecodeReply(s) ==
    /\ ploop[s] = "encode"
    /\ ploop[Peer(s)] = "decode"
    /\ ploop' = [ploop EXCEPT ![s] = "decode", ![Peer(s)] = "dispatch"]
    /\ pmsg' = [pmsg EXCEPT ![s] = NoFrame, ![Peer(s)] = pmsg[s]]
    /\ UNCHANGED <<popen, pacc>>
    /\ UNCHANGED <<svars, rvars, cvars>>

\* onePacket: getChan, ch.handle puts the frame on the opener's ch.msg
PairDispatch(s) ==
    /\ ploop[s] = "dispatch"
    /\ popen' = [popen EXCEPT ![s][pmsg[s].id] = pmsg[s].kind]
    /\ ploop' = [ploop EXCEPT ![s] = "decode"]
    /\ pmsg' = [pmsg EXCEPT ![s] = NoFrame]
    /\ UNCHANGED pacc
    /\ UNCHANGED <<svars, rvars, cvars>>

\* session.Open: case m = <-ch.msg and the switch on m
PairOpenReturn(s, k) ==
    /\ popen[s][k] \in {"OpenConfirm", "OpenFailure"}
    /\ popen' = [popen EXCEPT ![s][k] =
                     OpenResult(popen[s][k], k).err]
    /\ UNCHANGED <<ploop, pmsg, pacc>>
    /\ UNCHANGED <<svars, rvars, cvars>>

PairNext ==
    \/ \E s \in Sides, k \in Openers : PairOpen(s, k)
    \/ \E s \in Sides, k \in Openers : PairDecodeOpen(s, k)
    \/ \E s \in Sides : PairDeliver(s)
    \/ \E s \in Sides : PairTimeout(s)
    \/ \E s \in Sides : PairEncode(s)
    \/ \E s \in Sides : PairAcceptAgain(s)
    \/ \E s \in Sides : PairDecodeReply(s)
    \/ \E s \in Sides : PairDispatch(s)
    \/ \E s \in Sides, k \in Openers : PairOpenReturn(s, k)

\* every goroutine that can take a step is scheduled
PairFairness ==
    /\ \A s \in Sides, k \in Openers :
           /\ WF_vars(PairDecodeOpen(s, k))
           /\ WF_vars(PairOpenReturn(s, k))
    /\ \A s \in Sides :
           /\ WF_vars(PairDeliver(s) \/ PairTimeout(s))
           /\ WF_vars(PairEncode(s))
           /\ WF_vars(PairAcceptAgain(s))
           /\ WF_vars(PairDecodeReply(s))
           /\ WF_vars(PairDispatch(s))

PairSpec == Init /\ [][PairNext]_vars /\ PairFairness

\* ------------------------------------------------------------------ claims
HasSent(o, type) == \E i \in 1..Len(chs[o].sent) : chs[o].sent[i].type = type
CountSent(o, type) ==
    Cardinality({i \in 1..Len(chs[o].sent) : chs[o].sent[i].type = type})

\* C1: once Close has completed (transport closed, loop through its shutdown),
\* every Accept and Open begun afterwards returns a closed/EOF result: an Accept
\* waiting then can take its closed branch (nothing will ever send on the inbox
\* or on closeCh again), no Open waits, and what they return is an error.
C1_CallsAfterCloseReturn ==
    \A p \in Procs : after[p] =>
        /\ pc[p] = "accept" => closeCh > 0
        /\ pc[p] # "open"
        /\ (pc[p] = "ret" /\ res[p].op \in {"Accept", "Open"}) =>
               (res[p].ch = 0 /\ res[p].err # "nil")

\* C2: for an inbound Open with a valid size, OpenConfirm is sent only when an
\* Accept took the channel; when the accept timeout expired instead, exactly one
\* OpenFailure with the opener's sender id is sent and the channel is no longer
\* in the channel table.
C2_ConfirmedOrRejectedAndDropped ==
    \A o \in Objs : chs[o].direction = "inbound" =>
        /\ HasSent(o, "OpenConfirm") => chs[o].fate = "confirmed"
        /\ chs[o].fate = "confirmed" =>
               (CountSent(o, "OpenConfirm") = 1 /\ ~HasSent(o, "OpenFailure"))
        /\ chs[o].fate = "rejected" =>
               /\ chs[o].sent = <<Frame("OpenFailure", chs[o].remoteId, 0)>>
               /\ ~InTable(o)

\* C3: an inbound Open whose max_packet_size is < 9 or >= 2^31 gets an
\* OpenFailure for its sender id, creates no channel and leaves the loop
\* running; one with a size in [9, 2^31) creates a channel.
C3_OpenSizeChecked ==
    [][(lpc = "handleOpen" /\ lpc' # "handleOpen") =>
         IF LtU32(msg.mps, U32(0, 9)) \/ ~LtU32(msg.mps, U32(32768, 0))
         THEN /\ chans' = chans
              /\ chs' = chs
              /\ offer' = 0
              /\ EncodeOk => (wrote' = <<Frame("OpenFailure", msg.id, 0)>> /\ lpc' = "run")
         ELSE /\ Len(chs') = Len(chs) + 1
              /\ offer' = Len(chs')
              /\ \E i \in 1..Len(chans') : chans'[i] = Len(chs')]_vars

\* C4: an Open that has sent its frame returns by the first message delivered
\* on its channel's msg: OpenConfirm - the channel and no error; OpenFailure -
\* no channel and "channel open failed"; nil (msg closed) - no channel and
\* "closed"; anything else - no channel and an error.  Never both.
C4_OpenReturnsByFirstMessage ==
    \A p \in Procs : (pc[p] = "ret" /\ res[p].op = "Open") =>
        /\ ~(res[p].ch # 0 /\ res[p].err # "nil")
        /\ res[p].err \notin {"ctx", "write"} =>
             /\ chs[cur[p]].ctl # <<>>
             /\ LET m == Head(chs[cur[p]].ctl)
                IN  CASE m = "OpenConfirm" -> res[p].ch = cur[p] /\ res[p].err = "nil"
                      [] m = "OpenFailure" ->
                           res[p].ch = 0 /\ res[p].err = "channel open failed"
                      [] m = "nil" -> res[p].ch = 0 /\ res[p].err = "closed"
                      [] OTHER -> res[p].ch = 0 /\ res[p].err # "nil"

W4_OpenReturnedChannel ==
    \E p \in Procs : pc[p] = "ret" /\ res[p].op = "Open" /\ res[p].ch # 0

\* C5: the shutdown runs in order - (a) the channels of the table are dropped
\* and closed, (b) the transport is closed, (c) closeCh is signalled, (d) the
\* error is stored - and Wait returns only after (d), with exactly the error
\* that stopped the loop.
C5_ShutdownOrder ==
    /\ loopClosedT => (dropDone /\ \A o \in dropped : chs[o].closed /\ ~InTable(o))
    /\ signalled > 0 => (loopClosedT /\ tClosed)
    /\ err # "nil" => (signalled > 0 /\ err = lerr)
    /\ \A p \in Procs : (pc[p] = "ret" /\ res[p].op = "Wait") =>
           (lpc = "done" /\ lerr # "nil" /\ res[p].err = lerr)

W5_WaitReturned ==
    \E p \in Procs : pc[p] = "ret" /\ res[p].op = "Wait" /\ dropped # {}

\* C6: an Open whose context is cancelled while it waits returns no channel and
\* the context's error; its channel stays in the table under its local id until
\* a response for it arrives (or the session shuts down), and a late
\* OpenConfirm/OpenFailure for that id is dispatched to the channel - it is not
\* an invalid channel id.
C6_CancelKeepsChannelState ==
    /\ \A p \in Procs : (pc[p] = "ret" /\ res[p].op = "Open" /\ chs[cur[p]].cancelled) =>
           (res[p].ch = 0 /\ res[p].err = "ctx")
    /\ \A o \in Objs : (chs[o].cancelled /\ chs[o].ctl = <<>>) =>
           getChan(chs[o].localId) = o

C6_LateResponseDispatched ==
    \A o \in Objs :
        (/\ lpc = "dispatch" /\ lpc' # "dispatch"
         /\ msg.kind \in {"OpenConfirm", "OpenFailure"}
         /\ chs[o].cancelled /\ chs[o].ctl = <<>> /\ msg.id = chs[o].localId)
        => /\ lerr' = "nil" /\ lpc' = "run"
           /\ msg.kind = "OpenConfirm" => chs'[o].msg = <<"OpenConfirm">>
           /\ msg.kind = "OpenFailure" => getChan(chs[o].localId)' # o

C6_CancelledOpenKeepsChannel ==
    []C6_CancelKeepsChannelState /\ [][C6_LateResponseDispatched]_vars

W6_LateConfirmOnCancelled ==
    \E o \in Objs : chs[o].cancelled /\ chs[o].ctl = <<"OpenConfirm">> /\ InTable(o)
                    /\ \A p \in Procs : cur[p] # o

\* C7: no two channels in the channel table have the same local id.
C7_LocalIdsUnique ==
    \A i, j \in 1..Len(chans) :
        (i # j /\ chans[i] # 0 /\ chans[j] # 0) =>
            chs[chans[i]].localId # chs[chans[j]].localId

W7_OutboundAndInboundLive ==
    \E i, j \in 1..Len(chans) :
        /\ chans[i] # 0 /\ chans[j] # 0
        /\ chs[chans[i]].direction = "outbound" /\ chs[chans[j]].direction = "inbound"
        /\ \E p \in Procs : pc[p] = "ret" /\ res[p].op = "Open" /\ res[p].ch = chans[i]

C8_CancelSafety ==
    /\ (cpc = "returned" /\ cancelledInFlight) => callRes.err = "ctx"
    /\ (cancelledInFlight /\ watcher = "exited") => (watcherClosed \/ doneClosed)
    /\ (cpc \in {"check", "returned"} /\ callErr.err = "closed") => watcherClosed
    /\ watcherClosed => ctxDone
    /\ (cpc = "returned" /\ watcher = "waiting") => doneClosed

C9_AutoReturn ==
    (rpc = "done" /\ ~hresp) =>
        /\ responded
        /\ ~header.Continue
        /\ lastErr = "nil" =>
              /\ Len(out) >= 2
              /\ out[Len(out) - 1] = HeaderFrame([Continue |-> FALSE, Error |-> FALSE])
              /\ out[Len(out)] = ValueFrame("nil")
              /\ \A i \in 1..(Len(out) - 2) : out[i].k = "value"

W9_AutoReturnWritten ==
    rpc = "done" /\ ~hresp /\ lastErr = "nil" /\ Len(out) = 2

\* C10: the continue flag decides the channel's fate: when the response was
\* made with continue = false the channel is closed by the time the responder
\* task finishes; while the response is a Continue that succeeded the channel
\* is not closed by the responder.
C10_ContinueFlagDecidesClose ==
    /\ (rpc = "done" /\ responded /\ ~header.Continue) => rch.closed
    /\ (responded /\ header.Continue /\ lastErr = "nil") => ~rch.closed

W10_ContinuedChannelOpen ==
    /\ rpc = "done" /\ responded /\ header.Continue /\ lastErr = "nil"
    /\ ~rch.closed /\ Len(out) = 3

\* the frames a step has added to what is written on the responder's channel
NewFrames == SubSeq(out', Len(out) + 1, Len(out'))
ValueFrames(vs) == [i \in 1..Len(vs) |-> ValueFrame(vs[i])]
IsPrefix(a, b) == Len(a) <= Len(b) /\ a = SubSeq(b, 1, Len(a))

C12_SendOnlyWhenContinued ==
    [][(lastCall' = lastCall /\ Len(out') = Len(out) + 1) =>
           (responded /\ header.Continue)]_vars

\* C13: when decoding the CallHeader fails, no handler is invoked, no response
\* is written and the channel is closed by the time the responder task ends.
C13_DecodeFailureAborts ==
    rpc = "decodeFailed" =>
        (calls = 0 /\ ~responded /\ out = <<>> /\ rch.closed)

CountHeaders(fs) == Cardinality({i \in 1..Len(fs) : fs[i].k = "header"})

\* C16: the responder goes from unresponded to returned or to continued and
\* nowhere else: whatever Return/Continue calls the handler makes, at most one
\* ResponseHeader is encoded on the channel, and once a response has been made
\* the continue flag does not change.
C16_RespondOnce ==
    /\ [](CountHeaders(out) <= 1)
    /\ [][responded => header'.Continue = header.Continue]_vars

\* C14: the frames written for a channel start with its one Open (outbound) or
\* its one OpenConfirm (inbound): whatever the interleaving of the loop and the
\* task that got the channel from Accept, no Data frame of an inbound channel
\* is written before its OpenConfirm.
C14_ConfirmBeforeData ==
    \A o \in Objs :
        /\ (chs[o].direction = "outbound" /\ chs[o].sent # <<>>) =>
               (chs[o].sent[1].type = "Open" /\ CountSent(o, "Open") = 1)
        /\ chs[o].direction = "inbound" =>
               /\ CountSent(o, "OpenConfirm") <= 1
               /\ \A i \in 1..Len(chs[o].sent) : chs[o].sent[i].type = "Data" =>
                      \E j \in 1..(i - 1) : chs[o].sent[j].type = "OpenConfirm"

\* C15: a transport error unblocks every pending Open: once the loop has run
\* its shutdown, every Open that still waits (its context not cancelled) has a
\* message or a closed ch.msg to receive - also an Open that entered its
\* channel in the table after dropAll had emptied it.
C15_PendingOpenUnblocked ==
    \A p \in Procs :
        (lpc = "done" /\ pc[p] = "open" /\ ~ctx[p]) =>
            (chs[cur[p]].msg # <<>> \/ chs[cur[p]].closed)

\* C17: a frame that carries a channel id which is not in the table ends the
\* session: onePacket returns the invalid channel error, the loop reads no more
\* and goes through its shutdown, and that error is what is stored and what
\* every Wait returns.  An Open with a max_packet_size outside [9, 2^31) does
\* not end the session while the transport can be written: the step sets no
\* error, and a rejected size leaves the loop reading after the OpenFailure.
C17_InvalidChannelTerminates ==
    /\ [][(lpc = "dispatch" /\ lpc' # "dispatch" /\ getChan(msg.id) = 0) =>
             (lerr' = "invalid channel" /\ lpc' = "dropAll")]_vars
    /\ [][lerr = "invalid channel" =>
             (lerr' = lerr /\ lpc' \in {"dropAll", "closeT", "signal", "storeErr", "done"}
                /\ (lpc' # lpc => lpc # "done"))]_vars
    /\ []((lerr = "invalid channel" /\ lpc = "done") =>
             (dropDone /\ tClosed /\ signalled = 1 /\ err = "invalid channel"))
    /\ [](\A p \in Procs :
             (lerr = "invalid channel" /\ pc[p] = "ret" /\ res[p].op = "Wait") =>
                 res[p].err = "invalid channel")
    /\ [][(lpc = "handleOpen" /\ lpc' # "handleOpen" /\ EncodeOk
             /\ (LtU32(msg.mps, U32(0, 9)) \/ ~LtU32(msg.mps, U32(32768, 0)))) =>
             (lerr' = "nil" /\ lpc' \in {"run", "offer"}
                /\ (~ValidPacketSize(msg.mps) =>
                       (lpc' = "run" /\ wrote' = <<Frame("OpenFailure", msg.id, 0)>>)))]_vars

W17_WaitReturnedInvalidChannel ==
    \E p \in Procs :
        pc[p] = "ret" /\ res[p].op = "Wait" /\ res[p].err = "invalid channel"

\* C18: Accept returns the inbound channels in the order their Open frames
\* were decoded, each at most once: the channel an Accept takes from the inbox
\* is the one handleOpen offers and was not returned before; every other
\* inbound channel came from an earlier Open frame (the channels are numbered
\* in the order handleOpen creates them) and is no longer on offer; no other
\* task holds the channel.
C18_AcceptInArrivalOrder ==
    [][\A p \in Procs :
         (pc[p] = "accept" /\ pc'[p] = "ret" /\ res'[p].ch # 0) =>
             LET o == res'[p].ch
             IN  /\ o = offer
                 /\ chs[o].direction = "inbound"
                 /\ chs[o].fate = "offered"
                 /\ chs'[o].fate = "accepted"
                 /\ \A o2 \in Objs \ {o} :
                        chs[o2].direction = "inbound" =>
                            (o2 < o /\ chs[o2].fate # "offered")
                 /\ \A q \in Procs \ {p} : res[q].ch # o /\ res'[q].ch # o]_vars

W18_SecondChannelAccepted ==
    \E p \in Procs :
        /\ pc[p] = "ret" /\ res[p].op = "Accept" /\ res[p].ch # 0
        /\ \E o2 \in Objs :
               /\ o2 < res[p].ch
               /\ chs[o2].direction = "inbound"
               /\ chs[o2].fate = "confirmed"

\* C20: the shutdown does not wait for anybody: when the loop comes to the send
\* on closeCh the buffer is empty, so the one send goes through whether or not
\* a task is in Accept; the error is stored, non-nil; all Waits return that one
\* error; and once the transport is closed or the loop has an error, the loop
\* finishes its shutdown and every Wait - begun before or after - returns.
C20_ShutdownNeverBlocks ==
    /\ [](signalled <= 1)
    /\ [](lpc = "signal" => (signalled = 0 /\ closeCh = 0))
    /\ [](lpc \in {"storeErr", "done"} => signalled = 1)
    /\ [](lpc = "done" => (err # "nil" /\ err = lerr))
    /\ [](\A p, q \in Procs :
             (pc[p] = "ret" /\ res[p].op = "Wait" /\ pc[q] = "ret" /\ res[q].op = "Wait") =>
                 (res[p].err # "nil" /\ res[p].err = res[q].err))
    /\ ((tClosed \/ lerr # "nil") ~> lpc = "done")
    /\ \A p \in Procs :
           (pc[p] = "wait" /\ (tClosed \/ lerr # "nil")) ~> pc[p] # "wait"

W20_WaitsBeforeAndAfterReturned ==
    /\ \A p \in Procs : pc[p] = "ret" /\ res[p].op = "Wait"
    /\ \E p, q \in Procs : ~after[p] /\ after[q]
    /\ closeCh = 1

\* C19: with two sessions, each with a task that calls Accept in a loop, every
\* Open that either side has begun returns in the end (with the channel when
\* its Open frame was handed to the peer's Accept); a loop that hands a channel
\* to Accept does not keep an OpenConfirm from being processed.
C19_OpensEventuallyReturn ==
    \A s \in Sides, k \in Openers :
        (popen[s][k] # "idle") ~> (popen[s][k] \in {"nil", "channel open failed"})

\* C21: a failed response does not leak the channel: when the responder task
\* has finished after a decoded call, the channel is open only if the response
\* in force is a Continue whose writes all succeeded; after a Return or a
\* Continue that failed to write its header or a value, the channel is closed.
C21_FailedResponseClosesChannel ==
    (rpc = "done" /\ ~rch.closed) =>
        (responded /\ header.Continue /\ lastErr = "nil")

====
